---- MODULE Spec2Model ----
(***************************************************************************)
(* Vancouver trip planner: the HTTP handler, the trip pipeline and the plan *)
(* selector of the routing service, and the rate lookup, the cost          *)
(* calculator and the meter selector of the pricing service.               *)
(*                                                                         *)
(* Numeric conventions.  float64 amounts are modelled as exact rationals   *)
(* on an integer scale: a rate is in cents per hour, a cost is in          *)
(* cent-minutes (rate x minutes, i.e. dollars x 6000), a preference weight *)
(* is in percent, and a hybrid score is dollars-score x 600000.  The scale *)
(* preserves order and equality of the modelled quantities.                *)
(*                                                                         *)
(* A time.Time is a record [abs, off]: abs is the instant in seconds since *)
(* Monday 00:00:00 Vancouver local time of the modelled week, off is the   *)
(* offset in seconds of the value's own location from Vancouver (0 for     *)
(* America/Vancouver, 8 hours for UTC in winter, as in the tests' -08:00). *)
(* No daylight-saving transition falls inside the modelled days.           *)
(***************************************************************************)
EXTENDS Integers, Sequences, FiniteSets, TLC

VARIABLES
    pc,               \* position of the operation under study
    stops,            \* request.Stops, as stop identifiers in input order
    prefs,            \* request.Preferences
    routes,           \* []*RouteCandidate, in generation order
    plans,            \* result of selectOptimalPlans
    meter,            \* *domain.ParkingMeter handed to CalculateParkingCost
    arrivalTime,      \* arrivalTime argument
    durationMinutes,  \* durationMinutes argument
    result,           \* what the pricing call under study returned
    meters,           \* meters argument of GetOptimalParkingMeter
    body,             \* the TripPlanRequest bound from the HTTP request body
    request,          \* the TripRequest handed to the routing service
    world,            \* what the collaborators (maps, parking data) answer
    stopParkingOptions, \* PlanTrip's map from stop ID to its meter list
    calls,            \* collaborator and selector calls made by PlanTrip so far
    err,              \* the error PlanTrip returned
    response,         \* what the HTTP handler answered
    run,              \* which run of the request this is (1: first, 2: repeated)
    earlier           \* (plans, err) PlanTrip returned in the run before

vars == <<pc, stops, prefs, routes, plans, meter, arrivalTime, durationMinutes, result,
          meters, body, request, world, stopParkingOptions, calls, err, response,
          run, earlier>>

\* The variables of the trip pipeline that the pricing and selection
\* operations under study do not touch.
tripVars == <<body, request, world, stopParkingOptions, calls, err, response, run, earlier>>

Min(a, b) == IF a <= b THEN a ELSE b

(***************************************************************************)
(* Bounds of the model.                                                    *)
(***************************************************************************)
MaxRoutes == 3
MaxStops == 4

(***************************************************************************)
(* Routing service: candidates and plan selection.                         *)
(***************************************************************************)

\* request.Preferences.CostWeight*totalCost + TimeWeight*float64(totalTime)/60.0
hybridScore(p, totalCost, totalTime) ==
    p.CostWeight * totalCost + 100 * p.TimeWeight * totalTime

\* The RouteCandidate returned by buildRouteCandidate; Segments is the
\* identity of the candidate's segment chain.
RouteCandidate(p, segments, totalCost, totalTime) ==
    [ Segments    |-> segments,
      TotalCost   |-> totalCost,
      TotalTime   |-> totalTime,
      HybridScore |-> hybridScore(p, totalCost, totalTime) ]

\* cheapestRoute := routes[0]; for each route: if route.TotalCost < cheapestRoute.TotalCost
RECURSIVE scanCheapest(_, _, _)
scanCheapest(rs, i, best) ==
    IF i > Len(rs) THEN best
    ELSE scanCheapest(rs, i + 1,
                      IF rs[i].TotalCost < best.TotalCost THEN rs[i] ELSE best)

\* Mutant: the cost comparison is reversed.
cheapestRoute_Greater(rs) ==
    LET RECURSIVE scan(_, _)
        scan(i, best) ==
            IF i > Len(rs) THEN best
            ELSE scan(i + 1, IF rs[i].TotalCost > best.TotalCost THEN rs[i] ELSE best)
    IN scan(1, rs[1])

cheapestRoute(rs) == scanCheapest(rs, 1, rs[1])

\* fastestRoute := routes[0]; for each route: if route.TotalTime < fastestRoute.TotalTime
RECURSIVE scanFastest(_, _, _)
scanFastest(rs, i, best) ==
    IF i > Len(rs) THEN best
    ELSE scanFastest(rs, i + 1,
                     IF rs[i].TotalTime < best.TotalTime THEN rs[i] ELSE best)

fastestRoute(rs) == scanFastest(rs, 1, rs[1])

\* hybridRoute := routes[0]; for each route: if route.HybridScore < hybridRoute.HybridScore
RECURSIVE scanHybrid(_, _, _)
scanHybrid(rs, i, best) ==
    IF i > Len(rs) THEN best
    ELSE scanHybrid(rs, i + 1,
                    IF rs[i].HybridScore < best.HybridScore THEN rs[i] ELSE best)

\* Mutant: <= instead of <, so the last of several minima wins.
hybridRoute_LastWins(rs) ==
    LET RECURSIVE scan(_, _)
        scan(i, best) ==
            IF i > Len(rs) THEN best
            ELSE scan(i + 1, IF rs[i].HybridScore <= best.HybridScore THEN rs[i] ELSE best)
    IN scan(1, rs[1])

hybridRoute(rs) == scanHybrid(rs, 1, rs[1])

TripPlan(type, r, metadata) ==
    [ Type      |-> type,
      TotalCost |-> r.TotalCost,
      TotalTime |-> r.TotalTime,
      Route     |-> r.Segments,
      Metadata  |-> metadata ]

\* fmt.Sprintf("$%.2f vs fastest", amount): the amount, which the model
\* holds in cent-minutes, rounded to whole cents.
VersusFastest(amount) ==
    [ cents  |-> IF amount >= 0 THEN (amount + 30) \div 60
                 ELSE 0 - ((30 - amount) \div 60),
      versus |-> "fastest" ]

\* fmt.Sprintf("%d minutes vs cheapest", minutes)
VersusCheapest(minutes) == [ minutes |-> minutes, versus |-> "cheapest" ]

\* Mutant: both deltas are taken the other way round.
selectOptimalPlans_DeltasReversed(rs) ==
    IF Len(rs) = 0 THEN << >>
    ELSE LET c == cheapestRoute(rs)
             f == fastestRoute(rs)
             h == hybridRoute(rs)
         IN << TripPlan("cheapest", c,
                        [ optimization |-> "cost",
                          savings      |-> VersusFastest(c.TotalCost - f.TotalCost) ]),
               TripPlan("fastest", f,
                        [ optimization |-> "time",
                          time_saved   |-> VersusCheapest(f.TotalTime - c.TotalTime) ]),
               TripPlan("hybrid", h,
                        [ optimization |-> "balanced",
                          hybrid_score |-> h.HybridScore ]) >>

\* Mutant: the fastest plan is listed before the cheapest one.
selectOptimalPlans_FastestFirst(rs) ==
    IF Len(rs) = 0 THEN << >>
    ELSE LET c == cheapestRoute(rs)
             f == fastestRoute(rs)
             h == hybridRoute(rs)
         IN << TripPlan("fastest", f,
                        [ optimization |-> "time",
                          time_saved   |-> VersusCheapest(c.TotalTime - f.TotalTime) ]),
               TripPlan("cheapest", c,
                        [ optimization |-> "cost",
                          savings      |-> VersusFastest(f.TotalCost - c.TotalCost) ]),
               TripPlan("hybrid", h,
                        [ optimization |-> "balanced",
                          hybrid_score |-> h.HybridScore ]) >>

\* Mutant: a single candidate is treated like none.
selectOptimalPlans_NeedsTwo(rs) ==
    IF Len(rs) <= 1 THEN << >>
    ELSE LET c == cheapestRoute(rs)
             f == fastestRoute(rs)
             h == hybridRoute(rs)
         IN << TripPlan("cheapest", c,
                        [ optimization |-> "cost",
                          savings      |-> VersusFastest(f.TotalCost - c.TotalCost) ]),
               TripPlan("fastest", f,
                        [ optimization |-> "time",
                          time_saved   |-> VersusCheapest(c.TotalTime - f.TotalTime) ]),
               TripPlan("hybrid", h,
                        [ optimization |-> "balanced",
                          hybrid_score |-> h.HybridScore ]) >>

selectOptimalPlans(rs) ==
    IF Len(rs) = 0 THEN << >>
    ELSE LET c == cheapestRoute(rs)
             f == fastestRoute(rs)
             h == hybridRoute(rs)
         IN << TripPlan("cheapest", c,
                        [ optimization |-> "cost",
                          savings      |-> VersusFastest(f.TotalCost - c.TotalCost) ]),
               TripPlan("fastest", f,
                        [ optimization |-> "time",
                          time_saved   |-> VersusCheapest(c.TotalTime - f.TotalTime) ]),
               TripPlan("hybrid", h,
                        [ optimization |-> "balanced",
                          hybrid_score |-> h.HybridScore ]) >>

\* stops[:i] ++ stops[i+1:]
Without(s, i) == SubSeq(s, 1, i - 1) \o SubSeq(s, i + 1, Len(s))

\* for each sub-permutation in order: <<stop>> ++ subPerm
Prepend(stop, subPerms) == [k \in 1..Len(subPerms) |-> <<stop>> \o subPerms[k]]

RECURSIVE generateStopPermutations(_)
RECURSIVE permutationsFrom(_, _)

\* The for-loop of generateStopPermutations from index i on.
permutationsFrom(s, i) ==
    IF i > Len(s) THEN << >>
    ELSE Prepend(s[i], generateStopPermutations(Without(s, i)))
         \o permutationsFrom(s, i + 1)

\* Mutant: only the input order is produced.
generateStopPermutations_InputOrderOnly(s) == << s >>

generateStopPermutations(s) ==
    IF Len(s) <= 1 THEN << s >> ELSE permutationsFrom(s, 1)

(***************************************************************************)
(* Pricing service: time.Time arithmetic.                                  *)
(***************************************************************************)
DayStartHour == 9        \* 9 AM: meters become active, day period starts
EveningStartHour == 18   \* 6 PM: evening period starts
MeterEndHour == 22       \* 10 PM: meters become inactive

Clock(h, m, s) == h * 3600 + m * 60 + s

\* Wall-clock seconds of t in t's own location since Monday 00:00 there.
Wall(t) == t.abs + t.off

\* t.Hour()
Hour(t) == (Wall(t) % (24 * 3600)) \div 3600

\* t.Weekday(): 0 Monday .. 5 Saturday, 6 Sunday
Weekday(t) == (Wall(t) \div (24 * 3600)) % 7

\* arrivalTime.In(loc) with loc = America/Vancouver
InVancouver(t) == [abs |-> t.abs, off |-> 0]

\* t.Add(time.Duration(minutes) * time.Minute)
AddMinutes(t, minutes) == [t EXCEPT !.abs = @ + 60 * minutes]

\* int(u.Sub(t).Minutes()): whole minutes, truncated
MinutesBetween(t, u) == (u.abs - t.abs) \div 60

(***************************************************************************)
(* Pricing service: rates, boundaries and cost.                            *)
(***************************************************************************)

IsMeterActive(t) == Hour(t) >= DayStartHour /\ Hour(t) < MeterEndHour

FreeParking == [rate |-> 0, timeLimit |-> 0]

\* Mutant: Saturday is looked up in the Mon-Fri cells.
GetParkingRateAtTime_SaturdayAsWeekday(m, t) ==
    LET hour    == Hour(t)
        day     == hour >= DayStartHour /\ hour < EveningStartHour
    IN IF ~IsMeterActive(t) THEN FreeParking
       ELSE IF Weekday(t) \in 0..5 THEN
              IF day THEN [rate |-> m.RateMF9A6P, timeLimit |-> m.TimeLimitMF9A6P]
              ELSE [rate |-> m.RateMF6P10, timeLimit |-> m.TimeLimitMF6P10]
       ELSE   IF day THEN [rate |-> m.RateSU9A6P, timeLimit |-> m.TimeLimitSU9A6P]
              ELSE [rate |-> m.RateSU6P10, timeLimit |-> m.TimeLimitSU6P10]

GetParkingRateAtTime(m, t) ==
    LET weekday == Weekday(t)
        hour    == Hour(t)
        day     == hour >= DayStartHour /\ hour < EveningStartHour
        evening == hour >= EveningStartHour /\ hour < MeterEndHour
    IN IF ~IsMeterActive(t) THEN FreeParking
       ELSE IF weekday \in 0..4 THEN
              IF day THEN [rate |-> m.RateMF9A6P, timeLimit |-> m.TimeLimitMF9A6P]
              ELSE IF evening THEN [rate |-> m.RateMF6P10, timeLimit |-> m.TimeLimitMF6P10]
              ELSE FreeParking
       ELSE IF weekday = 5 THEN
              IF day THEN [rate |-> m.RateSA9A6P, timeLimit |-> m.TimeLimitSA9A6P]
              ELSE IF evening THEN [rate |-> m.RateSA6P10, timeLimit |-> m.TimeLimitSA6P10]
              ELSE FreeParking
       ELSE   IF day THEN [rate |-> m.RateSU9A6P, timeLimit |-> m.TimeLimitSU9A6P]
              ELSE IF evening THEN [rate |-> m.RateSU6P10, timeLimit |-> m.TimeLimitSU6P10]
              ELSE FreeParking

\* The first of today's 9 AM, 6 PM, 10 PM and tomorrow's 9 AM (in t's own
\* location) that is after t.
getNextTimeBoundary(t) ==
    LET midnight   == Wall(t) - (Wall(t) % (24 * 3600))
        at(h)      == [abs |-> midnight + h * 3600 - t.off, off |-> t.off]
        boundaries == << at(DayStartHour), at(EveningStartHour), at(MeterEndHour),
                         at(24 + DayStartHour) >>
        after      == { i \in 1..4 : boundaries[i].abs > t.abs }
    IN IF after = {} THEN at(24 + DayStartHour)
       ELSE boundaries[CHOOSE i \in after : \A j \in after : i <= j]

\* What a call of CalculateParkingCost does: it returns (cost, err), or it
\* never returns.  time.LoadLocation("America/Vancouver") succeeds (the zone
\* database is part of the deployment), so err is always nil.
Returned(cost) == [returns |-> TRUE, cost |-> cost, err |-> "nil"]
NeverReturns == [returns |-> FALSE, cost |-> 0, err |-> "nil"]

\* The for-loop of CalculateParkingCost from the state (currentTime,
\* remainingMinutes, totalCost).  An iteration that charges 0 minutes and
\* does not break leaves all three unchanged: the loop then never ends.
RECURSIVE costLoop(_, _, _, _)
costLoop(m, currentTime, remainingMinutes, totalCost) ==
    IF remainingMinutes <= 0 THEN Returned(totalCost)
    ELSE IF ~IsMeterActive(currentTime) THEN Returned(totalCost)
    ELSE LET rl                == GetParkingRateAtTime(m, currentTime)
             nextBoundary      == getNextTimeBoundary(currentTime)
             minutesToBoundary == MinutesBetween(currentTime, nextBoundary)
             upToBoundary      == Min(remainingMinutes, minutesToBoundary)
             minutesAtThisRate == IF rl.timeLimit > 0
                                  THEN Min(upToBoundary, rl.timeLimit * 60)
                                  ELSE upToBoundary
             cost              == IF minutesAtThisRate > 0
                                  THEN rl.rate * minutesAtThisRate
                                  ELSE 0
         IN IF rl.timeLimit > 0 /\ minutesAtThisRate >= rl.timeLimit * 60
            THEN Returned(totalCost + cost)
            ELSE IF minutesAtThisRate = 0 THEN NeverReturns
            ELSE costLoop(m, AddMinutes(currentTime, minutesAtThisRate),
                          remainingMinutes - minutesAtThisRate, totalCost + cost)

\* Mutant: the arrival instant is not converted to Vancouver local time.
CalculateParkingCost_NoConversion(m, arrival, duration) ==
    IF duration <= 0 THEN Returned(0)
    ELSE costLoop(m, arrival, duration, 0)

\* Mutant: the zero-duration guard and the loop condition are off by one
\* (duration < 0, remainingMinutes >= 0).
CalculateParkingCost_ZeroEntersLoop(m, arrival, duration) ==
    IF duration < 0 THEN Returned(0)
    ELSE IF duration = 0
         THEN IF IsMeterActive(InVancouver(arrival)) THEN NeverReturns ELSE Returned(0)
         ELSE costLoop(m, InVancouver(arrival), duration, 0)

CalculateParkingCost(m, arrival, duration) ==
    IF duration <= 0 THEN Returned(0)
    ELSE costLoop(m, InVancouver(arrival), duration, 0)

\* What a call of GetOptimalParkingMeter does: it returns (bestMeter,
\* bestCost, nil), where found tells bestMeter from nil, or it never returns
\* because a cost computation never does.
NilMeter == [MeterID |-> 0]
Chosen(m, cost) ==
    [returns |-> TRUE, found |-> TRUE, meter |-> m, cost |-> cost, err |-> "nil"]
NoneChosen ==
    [returns |-> TRUE, found |-> FALSE, meter |-> NilMeter, cost |-> 0, err |-> "nil"]
SelectionNeverReturns ==
    [returns |-> FALSE, found |-> FALSE, meter |-> NilMeter, cost |-> 0, err |-> "nil"]

\* The for-loop of GetOptimalParkingMeter from meter i on; best holds
\* (bestMeter, bestCost), and a best that is not found stands for
\* (nil, +Inf), below which every cost lies.
RECURSIVE scanMeters(_, _, _, _, _)

\* One turn of the loop on meter i, once its cost c and its limit at the
\* arrival are known.
considerMeter(ms, i, arrival, duration, best, c, timeLimit) ==
    IF ~c.returns THEN SelectionNeverReturns
    ELSE IF timeLimit > 0 /\ duration > timeLimit * 60
         THEN scanMeters(ms, i + 1, arrival, duration, best)
    ELSE IF ~best.found \/ c.cost < best.cost
         THEN scanMeters(ms, i + 1, arrival, duration, Chosen(ms[i], c.cost))
    ELSE scanMeters(ms, i + 1, arrival, duration, best)

scanMeters(ms, i, arrival, duration, best) ==
    IF i > Len(ms) THEN best
    ELSE considerMeter(ms, i, arrival, duration, best,
                       CalculateParkingCost(ms[i], arrival, duration),
                       GetParkingRateAtTime(ms[i], arrival).timeLimit)

\* Mutant: cost <= bestCost, so the last of several cheapest meters wins.
GetOptimalParkingMeter_LastWins(ms, arrival, duration) ==
    LET RECURSIVE scan(_, _)
        scan(i, best) ==
            IF i > Len(ms) THEN best
            ELSE LET c         == CalculateParkingCost(ms[i], arrival, duration)
                     timeLimit == GetParkingRateAtTime(ms[i], arrival).timeLimit
                 IN IF ~c.returns THEN SelectionNeverReturns
                    ELSE IF timeLimit > 0 /\ duration > timeLimit * 60
                         THEN scan(i + 1, best)
                    ELSE IF ~best.found \/ c.cost <= best.cost
                         THEN scan(i + 1, Chosen(ms[i], c.cost))
                    ELSE scan(i + 1, best)
    IN scan(1, NoneChosen)

\* Mutant: the max-stay filter is left out.
GetOptimalParkingMeter_NoFilter(ms, arrival, duration) ==
    LET RECURSIVE scan(_, _)
        scan(i, best) ==
            IF i > Len(ms) THEN best
            ELSE LET c == CalculateParkingCost(ms[i], arrival, duration)
                 IN IF ~c.returns THEN SelectionNeverReturns
                    ELSE IF ~best.found \/ c.cost < best.cost
                         THEN scan(i + 1, Chosen(ms[i], c.cost))
                    ELSE scan(i + 1, best)
    IN scan(1, NoneChosen)

GetOptimalParkingMeter(ms, arrival, duration) ==
    IF Len(ms) = 0 THEN NoneChosen
    ELSE scanMeters(ms, 1, arrival, duration, NoneChosen)

(***************************************************************************)
(* Routing service: the trip pipeline of PlanTrip.                         *)
(*                                                                         *)
(* Positions lie on a line: a location is its Lat, Lat 0 (with Lng 0)      *)
(* stands for missing coordinates, and one unit of Lat is one minute's     *)
(* walk.  A stop's Address is the index of the place it names.             *)
(***************************************************************************)

\* An error answer of a collaborator (err != nil).
Failure == -1

\* maps.CalculateWalkingTime: whole walking minutes between two locations.
CalculateWalkingTime(from, to) == IF from >= to THEN from - to ELSE to - from

\* s.mapsService.GeocodeAddress(address): a Lat, or Failure.
GeocodeAddress(w, address) == w.geocode[address]

\* s.parkingRepo.GetParkingMetersNear(lat, lng, 1.0): [ok, meters].
GetParkingMetersNear(w, lat) == w.metersNear[lat]

\* s.mapsService.GetTravelTime(from, to, currentTime): minutes, or Failure.
\* The answer depends on the two locations only.
GetTravelTime(w, from, to) ==
    IF <<from, to>> \in w.noRoute THEN Failure ELSE w.driveMinutes[<<from, to>>]

\* Step 1 of PlanTrip from stop i on: copy each request stop and geocode it
\* when its coordinates are missing.  acc is [stops, calls, err].
RECURSIVE geocodeFrom(_, _, _, _)
geocodeFrom(w, reqStops, i, acc) ==
    IF i > Len(reqStops) THEN acc
    ELSE LET stop     == reqStops[i]
             location == GeocodeAddress(w, stop.Address)
         IN IF stop.Lat # 0
            THEN geocodeFrom(w, reqStops, i + 1,
                             [acc EXCEPT !.stops = Append(@, stop)])
            ELSE IF location = Failure
            THEN [acc EXCEPT !.stops = Append(@, stop), !.calls = @ + 1,
                             !.err = "failed to geocode address"]
            ELSE geocodeFrom(w, reqStops, i + 1,
                             [acc EXCEPT !.stops = Append(@, [stop EXCEPT !.Lat = location]),
                                         !.calls = @ + 1])

\* PlanTrip keeps at most this many meters per stop.
TopMeters == 10

\* sort.Slice(meters, less) by walking time to the stop: an insertion sort,
\* which is what sort.Slice runs on a slice of at most 12 elements.
RECURSIVE insertByWalk(_, _, _)
insertByWalk(stop, sorted, m) ==
    IF sorted = << >> THEN << m >>
    ELSE IF CalculateWalkingTime(stop.Lat, m.Lat)
              < CalculateWalkingTime(stop.Lat, sorted[Len(sorted)].Lat)
         THEN Append(insertByWalk(stop, SubSeq(sorted, 1, Len(sorted) - 1), m),
                     sorted[Len(sorted)])
         ELSE Append(sorted, m)

RECURSIVE sortByWalk(_, _, _)
sortByWalk(stop, ms, n) ==
    IF n = 0 THEN << >> ELSE insertByWalk(stop, sortByWalk(stop, ms, n - 1), ms[n])

\* if len(meters) > 10: sort by walking time and keep the closest 10.
closestMeters(stop, ms) ==
    IF Len(ms) > TopMeters THEN SubSeq(sortByWalk(stop, ms, Len(ms)), 1, TopMeters)
    ELSE ms

\* stopParkingOptions[id] = ms
Put(options, id, ms) ==
    [x \in DOMAIN options \cup {id} |-> IF x = id THEN ms ELSE options[x]]

\* Mutant: a failed meter fetch is taken for an empty meter list.
findParkingFrom_ErrorIsEmpty(w, ss, i, acc) ==
    [ options |-> [ id \in { ss[k].ID : k \in 1..Len(ss) } |->
                      LET k    == CHOOSE x \in 1..Len(ss) :
                                     /\ ss[x].ID = id
                                     /\ \A y \in 1..Len(ss) : ss[y].ID = id => y <= x
                          near == GetParkingMetersNear(w, ss[k].Lat)
                      IN IF near.ok THEN closestMeters(ss[k], near.meters) ELSE << >> ],
      calls   |-> Len(ss),
      err     |-> "nil" ]

\* Step 2 of PlanTrip from stop i on: fetch the meters near each stop and
\* file them under the stop's ID.  acc is [options, calls, err].
RECURSIVE findParkingFrom(_, _, _, _)
findParkingFrom(w, ss, i, acc) ==
    IF i > Len(ss) THEN acc
    ELSE LET near == GetParkingMetersNear(w, ss[i].Lat)
         IN IF ~near.ok
            THEN [acc EXCEPT !.calls = @ + 1, !.err = "failed to get parking meters"]
            ELSE findParkingFrom(w, ss, i + 1,
                     [acc EXCEPT !.options = Put(@, ss[i].ID, closestMeters(ss[i], near.meters)),
                                 !.calls = @ + 1])

RouteSegment(fromStop, toStop, bestMeter, travelTime, parkingCost, walkingTime) ==
    [ FromStop     |-> fromStop,
      ToStop       |-> toStop,
      ParkingMeter |-> bestMeter,
      TravelTime   |-> travelTime,
      ParkingCost  |-> parkingCost,
      WalkingTime  |-> walkingTime ]

\* What a call of buildRouteCandidate does: it returns a candidate or nil
\* (candidates holds the one or no candidate that
\* evaluateRouteWithParkingCombinations makes of it), or it never returns.
\* lookups and selections list the GetTravelTime and GetOptimalParkingMeter
\* calls it made, in order, with the instants handed over.
TravelLookup(from, to, departureTime) ==
    [from |-> from, to |-> to, departureTime |-> departureTime]
MeterSelection(toStop, arrival, duration) ==
    [stop |-> toStop.Address, arrivalTime |-> arrival, durationMinutes |-> duration]
Built(candidates, lookups, selections) ==
    [ returns |-> TRUE, candidates |-> candidates,
      lookups |-> lookups, selections |-> selections ]
BuildNeverReturns(lookups, selections) ==
    [ returns |-> FALSE, candidates |-> << >>,
      lookups |-> lookups, selections |-> selections ]

\* Mutant: the clock starts an hour later in a repeated run.
StartClock_LaterWhenRepeated(req) == AddMinutes(req.StartTime, 60 * (run - 1))

\* currentTime := request.StartTime
StartClock(req) == req.StartTime

\* The for-loop of buildRouteCandidate from segment i on (i is the position
\* of the destination stop in route).  acc is [segments, totalCost,
\* totalTime, currentTime, lookups, selections].
RECURSIVE buildFrom(_, _, _, _, _, _)

\* The rest of one turn of the loop, once the travel time is known and the
\* meter selection has answered best.
parkAndGoOn(w, route, parkingOptions, req, i, acc, travelTime, arrival, best) ==
    LET fromStop    == route[i - 1]
        toStop      == route[i]
        walkingTime == CalculateWalkingTime(best.meter.Lat, toStop.Lat)
        lookups     == Append(acc.lookups,
                              TravelLookup(fromStop.Lat, toStop.Lat, acc.currentTime))
        selections  == Append(acc.selections,
                              MeterSelection(toStop, arrival, toStop.Duration))
    IN IF ~best.returns
       THEN BuildNeverReturns(lookups, selections)
       ELSE IF ~best.found
       THEN Built(<< >>, lookups, selections)
       ELSE buildFrom(w, route, parkingOptions, req, i + 1,
              [ segments    |-> Append(acc.segments,
                                  RouteSegment(fromStop, toStop, best.meter,
                                               travelTime, best.cost, walkingTime)),
                totalCost   |-> acc.totalCost + best.cost,
                totalTime   |-> acc.totalTime + travelTime + walkingTime + toStop.Duration,
                currentTime |-> AddMinutes(arrival, walkingTime + toStop.Duration),
                lookups     |-> lookups,
                selections  |-> selections ])

buildFrom(w, route, parkingOptions, req, i, acc) ==
    IF i > Len(route)
    THEN Built(<< RouteCandidate(req.Preferences, acc.segments, acc.totalCost, acc.totalTime) >>,
               acc.lookups, acc.selections)
    ELSE LET fromStop   == route[i - 1]
             toStop     == route[i]
             travelTime == GetTravelTime(w, fromStop.Lat, toStop.Lat)
             arrival    == AddMinutes(acc.currentTime, travelTime)
             ms         == parkingOptions[toStop.ID]
             lookups    == Append(acc.lookups,
                                  TravelLookup(fromStop.Lat, toStop.Lat, acc.currentTime))
         IN IF travelTime = Failure
            THEN Built(<< >>, lookups, acc.selections)
            ELSE IF Len(ms) = 0
            THEN Built(<< >>, lookups, acc.selections)
            ELSE parkAndGoOn(w, route, parkingOptions, req, i, acc, travelTime, arrival,
                             GetOptimalParkingMeter(ms, arrival, toStop.Duration))

\* Mutant: the loop starts at the third stop, the first segment is missing.
buildRouteCandidate_SkipsFirstSegment(w, route, parkingOptions, req) ==
    buildFrom(w, route, parkingOptions, req, 3,
              [ segments |-> << >>, totalCost |-> 0, totalTime |-> 0,
                currentTime |-> StartClock(req), lookups |-> << >>, selections |-> << >> ])

\* Mutant: the visit of the first stop is counted into the total time.
buildRouteCandidate_TimeCountsFirstVisit(w, route, parkingOptions, req) ==
    buildFrom(w, route, parkingOptions, req, 2,
              [ segments |-> << >>, totalCost |-> 0, totalTime |-> route[1].Duration,
                currentTime |-> StartClock(req), lookups |-> << >>, selections |-> << >> ])

\* Mutant: the clock starts after the visit of the first stop.
buildRouteCandidate_ClockCountsFirstVisit(w, route, parkingOptions, req) ==
    buildFrom(w, route, parkingOptions, req, 2,
              [ segments |-> << >>, totalCost |-> 0, totalTime |-> 0,
                currentTime |-> AddMinutes(StartClock(req), route[1].Duration),
                lookups |-> << >>, selections |-> << >> ])

buildRouteCandidate(w, route, parkingOptions, req) ==
    buildFrom(w, route, parkingOptions, req, 2,
              [ segments |-> << >>, totalCost |-> 0, totalTime |-> 0,
                currentTime |-> StartClock(req), lookups |-> << >>, selections |-> << >> ])

\* The order of a route as the Addresses of its stops.
Addresses(route) == [k \in 1..Len(route) |-> route[k].Address]

\* Mutant: an ordering that yields no candidate throws away the candidates
\* collected before it.
evaluateRoute_FailureDropsEarlier(acc, route, built) ==
    [ returns    |-> built.returns,
      routes     |-> IF built.candidates = << >> THEN << >>
                     ELSE acc.routes \o built.candidates,
      orderings  |-> Append(acc.orderings, [k \in 1..Len(route) |-> route[k].Address]),
      lookups    |-> Append(acc.lookups, built.lookups),
      selections |-> Append(acc.selections, built.selections) ]

\* One turn of the for-loop of generateRoutes: the candidates built for
\* route are appended to the routes.
evaluateRoute(acc, route, built) ==
    [ returns    |-> built.returns,
      routes     |-> acc.routes \o built.candidates,
      orderings  |-> Append(acc.orderings, Addresses(route)),
      lookups    |-> Append(acc.lookups, built.lookups),
      selections |-> Append(acc.selections, built.selections) ]

\* The for-loop of generateRoutes from permutation k on.  acc is [returns,
\* routes, orderings, lookups, selections]; orderings lists the routes
\* handed to buildRouteCandidate so far, lookups and selections the calls
\* made for each of them.
RECURSIVE routesFrom(_, _, _, _, _, _, _)
routesFrom(w, ss, perms, parkingOptions, req, k, acc) ==
    IF k > Len(perms) \/ ~acc.returns THEN acc
    ELSE LET route == << ss[1] >> \o perms[k]
         IN routesFrom(w, ss, perms, parkingOptions, req, k + 1,
                       evaluateRoute(acc, route, buildRouteCandidate(w, route, parkingOptions, req)))

generateRoutes(w, ss, parkingOptions, req) ==
    routesFrom(w, ss, generateStopPermutations(Tail(ss)), parkingOptions, req, 1,
               [ returns |-> TRUE, routes |-> << >>, orderings |-> << >>,
                 lookups |-> << >>, selections |-> << >> ])

(***************************************************************************)
(* HTTP handler: TripHandler.PlanTrip up to the call of the routing        *)
(* service.  A stop ID k stands for the string "stop_k", ID 0 for the      *)
(* empty string; a start_time string is well-formed RFC3339 text naming a  *)
(* day, a wall clock and a zone, or it is something else.                  *)
(***************************************************************************)

\* c.ShouldBindJSON(&req): the binding tags of TripPlanRequest, StopRequest
\* and PreferencesRequest (required, min=2; required; required, min=1;
\* min=0, max=1).
Binds(b) ==
    /\ Len(b.Stops) >= 2
    /\ \A k \in 1..Len(b.Stops) :
          b.Stops[k].Address # 0 /\ b.Stops[k].DurationMinutes >= 1
    /\ b.StartTime.present
    /\ b.Preferences.supplied =>
          /\ b.Preferences.CostWeight >= 0 /\ b.Preferences.CostWeight <= 100
          /\ b.Preferences.TimeWeight >= 0 /\ b.Preferences.TimeWeight <= 100

\* Mutant: the sum of the weights is not validated.
PreferencesRejected_Unchecked(b) == FALSE

\* req.Preferences != nil and totalWeight < 0.9 || totalWeight > 1.1
PreferencesRejected(b) ==
    /\ b.Preferences.supplied
    /\ LET totalWeight == b.Preferences.CostWeight + b.Preferences.TimeWeight
       IN totalWeight < 90 \/ totalWeight > 110

\* The offset from Vancouver of the zone an RFC3339 string ends in.
ZoneOffset(zone) == IF zone = "Z" THEN 8 * 3600 ELSE 0

\* time.Parse(time.RFC3339, s): the instant the text names, in the text's
\* own zone, or an error.
ParseRFC3339(s) ==
    IF s.rfc3339
    THEN [ok |-> TRUE,
          time |-> [abs |-> s.day * 24 * 3600 + s.clock - ZoneOffset(s.zone),
                    off |-> ZoneOffset(s.zone)]]
    ELSE [ok |-> FALSE, time |-> [abs |-> 0, off |-> 0]]

\* fmt.Sprintf("stop_%d", index+1)
generateStopID(index) == index + 1

\* Mutant: every stop gets a generated ID, a supplied one is ignored.
DomainStops_AlwaysGenerated(b) ==
    [ i \in 1..Len(b.Stops) |->
        [ ID            |-> generateStopID(i - 1),
          Address       |-> b.Stops[i].Address,
          Lat           |-> b.Stops[i].Lat,
          Duration      |-> b.Stops[i].DurationMinutes,
          ArrivalTime   |-> [abs |-> 0, off |-> 0],
          DepartureTime |-> [abs |-> 0, off |-> 0] ] ]

\* for i, stop := range req.Stops: the domain.Stop of each StopRequest, with
\* a generated ID where none was supplied (i counts from 1 here).
DomainStops(b) ==
    [ i \in 1..Len(b.Stops) |->
        [ ID            |-> IF b.Stops[i].ID = 0 THEN generateStopID(i - 1)
                            ELSE b.Stops[i].ID,
          Address       |-> b.Stops[i].Address,
          Lat           |-> b.Stops[i].Lat,
          Duration      |-> b.Stops[i].DurationMinutes,
          ArrivalTime   |-> [abs |-> 0, off |-> 0],
          DepartureTime |-> [abs |-> 0, off |-> 0] ] ]

\* Preferences{CostWeight: 0.5, TimeWeight: 0.5}, replaced by the supplied
\* ones.
DomainPreferences(b) ==
    IF b.Preferences.supplied
    THEN [CostWeight |-> b.Preferences.CostWeight, TimeWeight |-> b.Preferences.TimeWeight]
    ELSE [CostWeight |-> 50, TimeWeight |-> 50]

\* domainReq
DomainRequest(b, startTime) ==
    [ Stops       |-> DomainStops(b),
      StartTime   |-> startTime,
      Preferences |-> DomainPreferences(b) ]

\* The 400 answers of the handler.
BadRequest(error) == [status |-> 400, error |-> error, plans |-> << >>]

\* Mutant: an empty plan list is answered like any other.
HandlerResponse_EmptyIsFine(ps, e) ==
    IF e # "nil"
    THEN [status |-> 500, error |-> "planning_failed", plans |-> << >>]
    ELSE [status |-> 200, error |-> "", plans |-> ps]

\* What TripHandler.PlanTrip writes once the routing service has returned
\* (plans, err).
HandlerResponse(ps, e) ==
    IF e # "nil"
    THEN [status |-> 500, error |-> "planning_failed", plans |-> << >>]
    ELSE IF Len(ps) = 0
    THEN [status |-> 404, error |-> "no_routes_found", plans |-> << >>]
    ELSE [status |-> 200, error |-> "", plans |-> ps]

(***************************************************************************)
(* Inputs of the model.                                                    *)
(***************************************************************************)

\* Preferences the handler lets through (cost_weight + time_weight = 1).
Preferences ==
    { [CostWeight |-> 50,  TimeWeight |-> 50],
      [CostWeight |-> 100, TimeWeight |-> 0],
      [CostWeight |-> 30,  TimeWeight |-> 70] }

\* Totals a candidate can have: $0, $1, $2 and 60, 120, 180 minutes.
TotalCosts == { 0, 6000, 12000 }
TotalTimes == { 60, 120, 180 }

\* Requests of 2..MaxStops stops, identifiers in either input order.
StopLists ==
    UNION { { [i \in 1..n |-> i], [i \in 1..n |-> n + 1 - i] } : n \in 2..MaxStops }

\* A candidate list generateRoutes can hand over: one candidate per ordering
\* that was not discarded, in generation order, the i-th of them with total
\* cost c[i], total time t[i] and segment chain i.
CandidateList(p, c, t) ==
    [i \in DOMAIN c |-> RouteCandidate(p, i, c[i], t[i])]

\* How many candidates a request of stops s can yield in the model: at most
\* one per ordering, and at most MaxRoutes.
MaxCandidates(s) == Min(MaxRoutes, Len(generateStopPermutations(Tail(s))))

NoStops == << >>

NoPreferences == [CostWeight |-> 0, TimeWeight |-> 0]

\* The six cells of a meter's rate schedule.
Cells == { "MF9A6P", "MF6P10", "SA9A6P", "SA6P10", "SU9A6P", "SU6P10" }

\* At most this many cells of a meter carry a max-stay limit.
MaxLimitedCells == 2

TimeLimits == { 0, 1, 4 }

LimitTables ==
    { l \in [Cells -> TimeLimits] :
        Cardinality({ c \in Cells : l[c] # 0 }) <= MaxLimitedCells }

\* Hourly rates in cents: one table with six different rates, one (as in
\* the tests' meters) with Mon-Fri rates only.
RateTables ==
    { [ MF9A6P |-> 400, MF6P10 |-> 250, SA9A6P |-> 300,
        SA6P10 |-> 200, SU9A6P |-> 350, SU6P10 |-> 150 ],
      [ MF9A6P |-> 350, MF6P10 |-> 200, SA9A6P |-> 0,
        SA6P10 |-> 0, SU9A6P |-> 0, SU6P10 |-> 0 ] }

ParkingMeter(r, l) ==
    [ RateMF9A6P |-> r.MF9A6P, RateMF6P10 |-> r.MF6P10,
      RateSA9A6P |-> r.SA9A6P, RateSA6P10 |-> r.SA6P10,
      RateSU9A6P |-> r.SU9A6P, RateSU6P10 |-> r.SU6P10,
      TimeLimitMF9A6P |-> l.MF9A6P, TimeLimitMF6P10 |-> l.MF6P10,
      TimeLimitSA9A6P |-> l.SA9A6P, TimeLimitSA6P10 |-> l.SA6P10,
      TimeLimitSU9A6P |-> l.SU9A6P, TimeLimitSU6P10 |-> l.SU6P10 ]

Meters == { ParkingMeter(r, l) : r \in RateTables, l \in LimitTables }

NoMeter == ParkingMeter([c \in Cells |-> 0], [c \in Cells |-> 0])

\* Arrival days: Friday, Saturday, Sunday (the stay may run into Monday).
ArrivalDays == { 4, 5, 6 }

ArrivalClocks ==
    { Clock(8, 0, 0),   Clock(8, 59, 30), Clock(9, 0, 0),   Clock(10, 0, 0),
      Clock(17, 0, 0),  Clock(17, 30, 0), Clock(17, 30, 30), Clock(17, 59, 30),
      Clock(18, 0, 0),  Clock(19, 0, 0),  Clock(21, 0, 0),  Clock(21, 30, 0),
      Clock(21, 59, 30), Clock(22, 0, 0), Clock(22, 30, 0), Clock(23, 30, 30) }

\* Offsets of the arrival value's location: Vancouver itself, and UTC.
ZoneOffsets == { 0, 8 * 3600 }

ArrivalTimes ==
    { [abs |-> d * 24 * 3600 + c, off |-> z] :
        d \in ArrivalDays, c \in ArrivalClocks, z \in ZoneOffsets }

Durations == { 0, 1, 30, 60, 90, 120, 240, 840 }

NoTime == [abs |-> 0, off |-> 0]

\* Instants handed to GetParkingRateAtTime and IsMeterActive: every day of
\* the week, at the hours around each boundary, in either location.
RateDays == 0..6
RateClocks ==
    { Clock(6, 0, 0),  Clock(8, 0, 0),   Clock(8, 59, 59), Clock(9, 0, 0),
      Clock(11, 0, 0), Clock(12, 0, 0),  Clock(17, 59, 59), Clock(18, 0, 0),
      Clock(19, 0, 0), Clock(21, 59, 0), Clock(22, 0, 0),  Clock(23, 0, 0) }
RateInstants ==
    { [abs |-> d * 24 * 3600 + c - z, off |-> z] :
        d \in RateDays, c \in RateClocks, z \in ZoneOffsets }

\* At most this many meters are handed to GetOptimalParkingMeter.
MaxMeters == 3

\* A meter of the list: a schedule with an identity and a position.
MeterAt(id, lat, m) == [MeterID |-> id, Lat |-> lat] @@ m

\* The schedule of a meter that charges r cents an hour by day (half of it
\* in the evening) on every day of the week and limits a Mon-Fri day stay to
\* l hours (0: no limit).
Schedule(r, l) ==
    ParkingMeter([ MF9A6P |-> r, MF6P10 |-> r \div 2, SA9A6P |-> r,
                   SA6P10 |-> r \div 2, SU9A6P |-> r, SU6P10 |-> r \div 2 ],
                 [ MF9A6P |-> l, MF6P10 |-> 0, SA9A6P |-> 0,
                   SA6P10 |-> 0, SU9A6P |-> 0, SU6P10 |-> 0 ])

\* The tests' CHEAP001, EXPENSIVE001 and SHORT_LIMIT001, and a meter with
\* CHEAP001's rates and no limit.
Schedules == { Schedule(200, 4), Schedule(500, 4), Schedule(100, 1), Schedule(200, 0) }

\* Arrivals and durations handed to GetOptimalParkingMeter.
SelectorArrivals ==
    { [abs |-> d * 24 * 3600 + c, off |-> z] :
        d \in {4, 5},
        c \in { Clock(8, 0, 0), Clock(10, 0, 0), Clock(17, 0, 0), Clock(17, 30, 30),
                Clock(19, 0, 0), Clock(22, 30, 0) },
        z \in ZoneOffsets }
SelectorDurations == { 0, 60, 120, 180, 300 }

\* The trip pipeline at rest.
NoRequest == [Stops |-> << >>, StartTime |-> NoTime, Preferences |-> NoPreferences]
NoWorld == [geocode |-> << >>, metersNear |-> << >>, driveMinutes |-> << >>, noRoute |-> {}]
NoCalls == [PlanTrip |-> 0, GeocodeAddress |-> 0, GetParkingMetersNear |-> 0,
            GetTravelTime |-> 0, GetOptimalParkingMeter |-> 0, orderings |-> << >>,
            lookups |-> << >>, selections |-> << >>]

\* How many calls the lists of ss hold together.
RECURSIVE CallCount(_)
CallCount(ss) == IF ss = << >> THEN 0 ELSE Len(Head(ss)) + CallCount(Tail(ss))
NoResponse == [status |-> 0, error |-> "", plans |-> << >>]
NoEarlierRun == [plans |-> << >>, err |-> "none"]
NotSupplied == [supplied |-> FALSE, CostWeight |-> 0, TimeWeight |-> 0]
Supplied(c, t) == [supplied |-> TRUE, CostWeight |-> c, TimeWeight |-> t]
NoStartTime == [present |-> FALSE, rfc3339 |-> FALSE, day |-> 0, clock |-> 0, zone |-> ""]
NoBody == [Stops |-> << >>, StartTime |-> NoStartTime, Preferences |-> NotSupplied]
TripIdle ==
    /\ body = NoBody
    /\ request = NoRequest
    /\ world = NoWorld
    /\ stopParkingOptions = << >>
    /\ calls = NoCalls
    /\ err = "nil"
    /\ response = NoResponse
    /\ run = 1
    /\ earlier = NoEarlierRun

\* Place k of the line, and the minutes a visit to it takes.
PlaceLat(k) == 100 * k
VisitMinutes(k) == IF k % 2 = 0 THEN 90 ELSE 60

StopRequest(k, id, lat) ==
    [ ID |-> id, Address |-> k, Lat |-> lat, DurationMinutes |-> VisitMinutes(k) ]

\* The meter lists the parking data can hold for place k: none; a dear
\* meter close by and a cheap one further off; one cheap meter with a
\* one-hour Mon-Fri day limit; eleven meters, the first of them the cheapest
\* and the furthest.
MeterListKinds == { "none", "pair", "short" }
MetersOfKind(k, kind) ==
    CASE kind = "none"    -> << >>
      [] kind = "pair"    -> << MeterAt(20 * k + 1, PlaceLat(k) + 2, Schedule(500, 4)),
                                MeterAt(20 * k + 2, PlaceLat(k) + 8, Schedule(200, 4)) >>
      [] kind = "short"   -> << MeterAt(20 * k + 1, PlaceLat(k) + 3, Schedule(100, 1)) >>
      [] kind = "crowded" -> [ j \in 1..(TopMeters + 1) |->
                                 MeterAt(20 * k + j,
                                         PlaceLat(k) + (IF j = 1 THEN 12 ELSE j % 4),
                                         Schedule(IF j = 1 THEN 100 ELSE 300, 0)) ]

\* Kinds of meter list per stop: the second and the third stop have any
\* kind of list (the second alone the crowded one), every other stop has the
\* pair.
MeterListChoices(n) ==
    { f \in [1..n -> MeterListKinds \cup {"crowded"}] :
        /\ f[1] = "pair"
        /\ n >= 3 => f[3] # "crowded"
        /\ \A k \in 4..n : f[k] = "pair" }

\* Driving minutes from place i to place j.
DriveMinutes(i, j) == 10 * (IF i >= j THEN i - j ELSE j - i) + (IF i > j THEN 5 ELSE 0)

\* What can be the matter with a request of n stops: nothing, with the IDs
\* and coordinates given or to be generated and geocoded; the third stop
\* under the ID of the second, which was supplied as well (to = 0) or is
\* generated (to = 1); the geocoding or the meter fetch of the first or the
\* last stop fails; the travel-time lookup of one pair of stops fails.
Scenarios(n) ==
    { [kind |-> kd, at |-> 0, to |-> 0] : kd \in {"given", "geocoded"} }
    \cup (IF n >= 3
          THEN { [kind |-> "duplicate id", at |-> 3, to |-> v] : v \in {0, 1} }
          ELSE {})
    \cup { [kind |-> kd, at |-> k, to |-> 0] :
             kd \in {"geocode fails", "meters fail"}, k \in {1, n} }
    \cup { [kind |-> "travel fails", at |-> pr[1], to |-> pr[2]] :
             pr \in { <<1, 2>>, <<2, 1>>, <<1, n>>, <<n, 2>> } \ { <<2, 2>> } }

\* start_time strings: Friday 16:00 in Vancouver, the same instant written
\* in UTC, Friday 16:19:30 in Vancouver, and text that is no RFC3339 time.
StartText(day, clock, zone) ==
    [present |-> TRUE, rfc3339 |-> TRUE, day |-> day, clock |-> clock, zone |-> zone]
TripStarts ==
    { StartText(4, Clock(16, 0, 0), "-08:00"),
      StartText(5, Clock(0, 0, 0), "Z"),
      StartText(4, Clock(16, 19, 30), "-08:00") }
NotATime == [present |-> TRUE, rfc3339 |-> FALSE, day |-> 0, clock |-> 0, zone |-> ""]

\* Preferences of the trip requests: none, and 0.3/0.7.
TripPreferences == { NotSupplied, Supplied(30, 70) }

\* Preferences at and beyond the edges of the validation: sums 0.9, 1.1,
\* 0.8, 1.6 (the integration test's), 0, and a weight above 1.
EdgePreferences ==
    { Supplied(40, 50), Supplied(60, 50), Supplied(40, 40), Supplied(80, 80),
      Supplied(0, 0), Supplied(120, 0) }

\* The request body of a trip of n stops.
TripPlanRequest(n, sc, start, p) ==
    [ Stops |-> [ k \in 1..n |->
                    StopRequest(k,
                         IF sc.kind = "duplicate id" /\ k = sc.at THEN k - 1
                         ELSE IF \/ sc.kind = "geocoded"
                                 \/ sc.kind = "duplicate id" /\ sc.to = 1 /\ k = sc.at - 1
                         THEN 0 ELSE k,
                         IF \/ sc.kind = "geocoded" /\ k % 2 = 1
                            \/ sc.kind = "geocode fails" /\ k = sc.at
                         THEN 0 ELSE PlaceLat(k)) ],
      StartTime   |-> start,
      Preferences |-> p ]

\* Bodies at the edges of the handler's validation: two plain stops with
\* edge preferences or an unreadable start time, and a single stop.
Plain == [kind |-> "given", at |-> 0, to |-> 0]
EdgeBodies ==
    { TripPlanRequest(2, Plain, StartText(4, Clock(16, 0, 0), "-08:00"), p) :
        p \in EdgePreferences }
    \cup { TripPlanRequest(2, Plain, NotATime, p) : p \in {NotSupplied, Supplied(80, 80)} }
    \cup { TripPlanRequest(1, Plain, StartText(4, Clock(16, 0, 0), "-08:00"), p) :
             p \in {NotSupplied, Supplied(80, 80)} }

\* The collaborators' answers: geocode maps an address to a Lat or to
\* Failure, metersNear a Lat to a meter list or an error, driveMinutes a
\* pair of Lats to minutes, for the pairs not in noRoute.
World(n, sc, kinds) ==
    [ geocode      |-> [ k \in 1..n |->
                           IF sc.kind = "geocode fails" /\ k = sc.at
                           THEN Failure ELSE PlaceLat(k) ],
      metersNear   |-> [ lat \in { PlaceLat(k) : k \in 1..n } |->
                           LET k == lat \div 100
                           IN IF sc.kind = "meters fail" /\ k = sc.at
                              THEN [ok |-> FALSE, meters |-> << >>]
                              ELSE [ok |-> TRUE, meters |-> MetersOfKind(k, kinds[k])] ],
      driveMinutes |-> [ pr \in { <<PlaceLat(i), PlaceLat(j)>> :
                                    i \in 1..n, j \in 1..n } |->
                           DriveMinutes(pr[1] \div 100, pr[2] \div 100) ],
      noRoute      |-> IF sc.kind = "travel fails"
                       THEN { <<PlaceLat(sc.at), PlaceLat(sc.to)>> } ELSE {} ]

(***************************************************************************)
(* Plan selection as a state machine: selectOptimalPlans applied to a      *)
(* candidate list.                                                         *)
(***************************************************************************)
InitPlans ==
    /\ pc = "select"
    /\ stops \in StopLists
    /\ prefs \in Preferences
    /\ \E n \in 0..MaxCandidates(stops) :
          \E c \in [1..n -> TotalCosts], t \in [1..n -> TotalTimes] :
              routes = CandidateList(prefs, c, t)
    /\ plans = << >>
    /\ meter = NoMeter
    /\ arrivalTime = NoTime
    /\ durationMinutes = 0
    /\ result = Returned(0)
    /\ meters = << >>
    /\ TripIdle

SelectOptimalPlans ==
    /\ pc = "select"
    /\ plans' = selectOptimalPlans(routes)
    /\ pc' = "selected"
    /\ UNCHANGED <<stops, prefs, routes, meter, arrivalTime, durationMinutes, result,
                   meters, tripVars>>

NextPlans == SelectOptimalPlans

SpecPlans == InitPlans /\ [][NextPlans]_vars

(***************************************************************************)
(* Pricing as a state machine: one call of CalculateParkingCost.           *)
(***************************************************************************)
InitPricing ==
    /\ pc = "call"
    /\ meter \in Meters
    /\ arrivalTime \in ArrivalTimes
    /\ durationMinutes \in Durations
    /\ result = Returned(0)
    /\ stops = NoStops
    /\ prefs = NoPreferences
    /\ routes = << >>
    /\ plans = << >>
    /\ meters = << >>
    /\ TripIdle

CallCalculateParkingCost ==
    /\ pc = "call"
    /\ result' = CalculateParkingCost(meter, arrivalTime, durationMinutes)
    /\ pc' = IF result'.returns THEN "returned" ELSE "looping"
    /\ UNCHANGED <<stops, prefs, routes, plans, meter, arrivalTime, durationMinutes,
                   meters, tripVars>>

NextPricing == CallCalculateParkingCost

SpecPricing == InitPricing /\ [][NextPricing]_vars

(***************************************************************************)
(* Rate lookup as a state machine: one call of GetParkingRateAtTime and of *)
(* IsMeterActive on the same instant.                                      *)
(***************************************************************************)
InitRate ==
    /\ pc = "lookup"
    /\ meter \in Meters
    /\ arrivalTime \in RateInstants
    /\ durationMinutes = 0
    /\ result = [rate |-> 0, timeLimit |-> 0, active |-> FALSE]
    /\ stops = NoStops
    /\ prefs = NoPreferences
    /\ routes = << >>
    /\ plans = << >>
    /\ meters = << >>
    /\ TripIdle

CallGetParkingRateAtTime ==
    /\ pc = "lookup"
    /\ result' = [ rate      |-> GetParkingRateAtTime(meter, arrivalTime).rate,
                   timeLimit |-> GetParkingRateAtTime(meter, arrivalTime).timeLimit,
                   active    |-> IsMeterActive(arrivalTime) ]
    /\ pc' = "looked up"
    /\ UNCHANGED <<stops, prefs, routes, plans, meter, arrivalTime, durationMinutes,
                   meters, tripVars>>

NextRate == CallGetParkingRateAtTime

SpecRate == InitRate /\ [][NextRate]_vars

(***************************************************************************)
(* Meter selection as a state machine: one call of GetOptimalParkingMeter. *)
(***************************************************************************)
InitSelector ==
    /\ pc = "choose"
    /\ \E n \in 0..MaxMeters :
          \E s \in [1..n -> Schedules] :
              meters = [i \in 1..n |-> MeterAt(i, 0, s[i])]
    /\ arrivalTime \in SelectorArrivals
    /\ durationMinutes \in SelectorDurations
    /\ result = NoneChosen
    /\ meter = NoMeter
    /\ stops = NoStops
    /\ prefs = NoPreferences
    /\ routes = << >>
    /\ plans = << >>
    /\ TripIdle

CallGetOptimalParkingMeter ==
    /\ pc = "choose"
    /\ result' = GetOptimalParkingMeter(meters, arrivalTime, durationMinutes)
    /\ pc' = IF result'.returns THEN "chosen" ELSE "looping"
    /\ UNCHANGED <<stops, prefs, routes, plans, meter, arrivalTime, durationMinutes,
                   meters, tripVars>>

NextSelector == CallGetOptimalParkingMeter

SpecSelector == InitSelector /\ [][NextSelector]_vars

(***************************************************************************)
(* The trip pipeline as a state machine: the handler calls PlanTrip, which *)
(* resolves the stops, fetches their meters, evaluates the orderings and   *)
(* selects the plans; the handler answers; the same request is then run a  *)
(* second time.                                                            *)
(***************************************************************************)
InitTrip ==
    /\ pc = "receive"
    /\ \/ \E n \in 2..MaxStops :
             \E sc \in Scenarios(n), kinds \in MeterListChoices(n),
                start \in TripStarts, p \in TripPreferences :
                 /\ body = TripPlanRequest(n, sc, start, p)
                 /\ world = World(n, sc, kinds)
       \/ /\ body \in EdgeBodies
          /\ world = World(2, Plain, [k \in 1..2 |-> "pair"])
    /\ request = NoRequest
    /\ prefs = NoPreferences
    /\ stops = NoStops
    /\ routes = << >>
    /\ plans = << >>
    /\ stopParkingOptions = << >>
    /\ calls = NoCalls
    /\ err = "nil"
    /\ response = NoResponse
    /\ run = 1
    /\ earlier = NoEarlierRun
    /\ meter = NoMeter
    /\ meters = << >>
    /\ arrivalTime = NoTime
    /\ durationMinutes = 0
    /\ result = Returned(0)

\* TripHandler.PlanTrip up to the call of the routing service: binding,
\* validation of the preferences, parsing of the start time, conversion.
Handler_Receive ==
    /\ pc = "receive"
    /\ LET startTime == ParseRFC3339(body.StartTime)
       IN IF ~Binds(body)
          THEN /\ response' = BadRequest("invalid_request")
               /\ pc' = "rejected"
               /\ UNCHANGED <<request, prefs>>
          ELSE IF PreferencesRejected(body)
          THEN /\ response' = BadRequest("invalid_preferences")
               /\ pc' = "rejected"
               /\ UNCHANGED <<request, prefs>>
          ELSE IF ~startTime.ok
          THEN /\ response' = BadRequest("invalid_start_time")
               /\ pc' = "rejected"
               /\ UNCHANGED <<request, prefs>>
          ELSE /\ request' = DomainRequest(body, startTime.time)
               /\ prefs' = DomainPreferences(body)
               /\ pc' = "plan"
               /\ UNCHANGED response
    /\ UNCHANGED <<stops, routes, plans, meter, arrivalTime, durationMinutes, result,
                   meters, body, world, stopParkingOptions, calls, err, run, earlier>>

\* PlanTrip up to the end of step 1.
PlanTrip_Geocode ==
    /\ pc = "plan"
    /\ LET done == geocodeFrom(world, request.Stops, 1,
                               [stops |-> << >>, calls |-> 0, err |-> "nil"])
       IN IF Len(request.Stops) < 2
          THEN /\ err' = "at least 2 stops are required"
               /\ pc' = "failed"
               /\ calls' = [calls EXCEPT !.PlanTrip = @ + 1]
               /\ UNCHANGED stops
          ELSE /\ stops' = done.stops
               /\ calls' = [calls EXCEPT !.PlanTrip = @ + 1,
                                         !.GeocodeAddress = done.calls]
               /\ err' = done.err
               /\ pc' = IF done.err = "nil" THEN "find parking" ELSE "failed"
    /\ UNCHANGED <<prefs, routes, plans, meter, arrivalTime, durationMinutes, result,
                   meters, body, request, world, stopParkingOptions, response, run, earlier>>

\* Step 2 of PlanTrip.
PlanTrip_FindParking ==
    /\ pc = "find parking"
    /\ LET done == findParkingFrom(world, stops, 1,
                                   [options |-> << >>, calls |-> 0, err |-> "nil"])
       IN /\ stopParkingOptions' = done.options
          /\ calls' = [calls EXCEPT !.GetParkingMetersNear = done.calls]
          /\ err' = done.err
          /\ pc' = IF done.err = "nil" THEN "generate" ELSE "failed"
    /\ UNCHANGED <<stops, prefs, routes, plans, meter, arrivalTime, durationMinutes,
                   result, meters, body, request, world, response, run, earlier>>

\* Step 3 of PlanTrip.
PlanTrip_GenerateRoutes ==
    /\ pc = "generate"
    /\ LET done == generateRoutes(world, stops, stopParkingOptions, request)
       IN /\ routes' = done.routes
          /\ calls' = [calls EXCEPT !.GetTravelTime = CallCount(done.lookups),
                                    !.GetOptimalParkingMeter = CallCount(done.selections),
                                    !.orderings = done.orderings,
                                    !.lookups = done.lookups,
                                    !.selections = done.selections]
          /\ pc' = IF done.returns THEN "select" ELSE "looping"
    /\ UNCHANGED <<stops, prefs, plans, meter, arrivalTime, durationMinutes, result,
                   meters, body, request, world, stopParkingOptions, err, response, run, earlier>>

\* The handler's answer to what PlanTrip returned.
Handler_Respond ==
    /\ pc \in {"selected", "failed"}
    /\ response' = HandlerResponse(plans, err)
    /\ pc' = "responded"
    /\ UNCHANGED <<stops, prefs, routes, plans, meter, arrivalTime, durationMinutes,
                   result, meters, body, request, world, stopParkingOptions, calls, err,
                   run, earlier>>

\* The same request is handed to PlanTrip once more, the collaborators
\* answering as before.
RunAgain ==
    /\ pc = "responded"
    /\ run = 1
    /\ run' = 2
    /\ earlier' = [plans |-> plans, err |-> err]
    /\ pc' = "plan"
    /\ stops' = NoStops
    /\ routes' = << >>
    /\ plans' = << >>
    /\ stopParkingOptions' = << >>
    /\ calls' = NoCalls
    /\ err' = "nil"
    /\ response' = NoResponse
    /\ UNCHANGED <<prefs, meter, arrivalTime, durationMinutes, result, meters,
                   body, request, world>>

NextTrip ==
    \/ Handler_Receive
    \/ PlanTrip_Geocode
    \/ PlanTrip_FindParking
    \/ PlanTrip_GenerateRoutes
    \/ SelectOptimalPlans
    \/ Handler_Respond
    \/ RunAgain

SpecTrip == InitTrip /\ [][NextTrip]_vars

(***************************************************************************)
(* Properties of plan selection (checked under SpecPlans).                 *)
(***************************************************************************)
Selected == pc = "selected" /\ Len(routes) > 0

\* Plan k carries the totals and the segment chain of candidate i.
PlanOfCandidate(k, i) ==
    /\ plans[k].TotalCost = routes[i].TotalCost
    /\ plans[k].TotalTime = routes[i].TotalTime
    /\ plans[k].Route = routes[i].Segments

\* C1: for every non-empty candidate list selectOptimalPlans returns exactly
\* three plans, in the order cheapest, fastest, hybrid, each typed by that
\* name and each carrying the totals and the segment chain of one candidate
\* of the list.
C1_ThreePlansOfCandidates ==
    Selected =>
        /\ Len(plans) = 3
        /\ plans[1].Type = "cheapest"
        /\ plans[2].Type = "fastest"
        /\ plans[3].Type = "hybrid"
        /\ \A k \in 1..3 : \E i \in 1..Len(routes) : PlanOfCandidate(k, i)

\* Witness of C1: three candidates, and the three plans are three different
\* candidates.
C1_Witness ==
    /\ Selected
    /\ Len(routes) = 3
    /\ Len(plans) = 3
    /\ Cardinality({ plans[k].Route : k \in 1..3 }) = 3

\* C2: the cheapest plan's total cost is at most every candidate's total
\* cost, and the fastest plan's total time is at most every candidate's
\* total time.
C2_CheapestAndFastestAreMinimal ==
    Selected =>
        \A i \in 1..Len(routes) :
            /\ plans[1].TotalCost <= routes[i].TotalCost
            /\ plans[2].TotalTime <= routes[i].TotalTime

\* Witness of C2: the minimum cost and the minimum time are not those of the
\* first candidate, and some candidate is strictly worse on each.
C2_Witness ==
    /\ Selected
    /\ Len(routes) = 3
    /\ plans[1].TotalCost < routes[1].TotalCost
    /\ plans[2].TotalTime < routes[1].TotalTime
    /\ plans[1].Route # plans[2].Route

\* C3 (as claimed): among the candidates sharing the minimum total cost the
\* cheapest plan is one with the lowest total time.
C3_CostTiesBrokenByTime ==
    Selected =>
        \A i \in 1..Len(routes) :
            routes[i].TotalCost = plans[1].TotalCost
                => plans[1].TotalTime <= routes[i].TotalTime

\* C4 (as claimed): among the candidates sharing the minimum total time the
\* fastest plan is one with the lowest total cost.
C4_TimeTiesBrokenByCost ==
    Selected =>
        \A i \in 1..Len(routes) :
            routes[i].TotalTime = plans[2].TotalTime
                => plans[2].TotalCost <= routes[i].TotalCost

\* Candidates whose hybrid score is the minimum of the list.
MinHybrid == { i \in 1..Len(routes) :
                 \A j \in 1..Len(routes) : routes[i].HybridScore <= routes[j].HybridScore }

\* C5: the hybrid plan is the candidate with the minimum hybrid score, and
\* among several with that score the one generated first; the first ordering
\* generateRoutes enumerates is the request's input order.
C5_HybridIsFirstMinimum ==
    Selected =>
        /\ \E i \in MinHybrid :
              /\ \A j \in MinHybrid : i <= j
              /\ PlanOfCandidate(3, i)
              /\ plans[3].Metadata.hybrid_score = routes[i].HybridScore
        /\ <<stops[1]>> \o generateStopPermutations(Tail(stops))[1] = stops

\* Witness of C5: two candidates with different totals share the minimum
\* hybrid score, neither is the first candidate, and the earlier one is the
\* hybrid plan.
C5_Witness ==
    /\ Selected
    /\ Len(routes) = 3
    /\ MinHybrid = {2, 3}
    /\ routes[2].TotalCost # routes[3].TotalCost
    /\ plans[3].Route = routes[2].Segments
    /\ stops[1] # 1

(***************************************************************************)
(* Properties of pricing (checked under SpecPricing).                      *)
(***************************************************************************)
Max(a, b) == IF a >= b THEN a ELSE b

\* Seconds common to [a, b) and [c, d).
Overlap(a, b, c, d) == Max(0, Min(b, d) - Max(a, c))

\* The stay, in Vancouver wall-clock seconds since Monday 00:00.
StayStart == arrivalTime.abs
StayEnd == arrivalTime.abs + 60 * durationMinutes
ArrivalDay == StayStart \div (24 * 3600)
ArrivalClock == StayStart % (24 * 3600)

\* Seconds of the stay inside [fromHour, toHour) of day d.
SecondsInside(d, fromHour, toHour) ==
    Overlap(StayStart, StayEnd,
            d * 24 * 3600 + fromHour * 3600, d * 24 * 3600 + toHour * 3600)

\* The cells of the weekday bucket of day d.
DayCell(d) ==
    IF d % 7 \in 0..4 THEN [rate |-> meter.RateMF9A6P, timeLimit |-> meter.TimeLimitMF9A6P]
    ELSE IF d % 7 = 5 THEN [rate |-> meter.RateSA9A6P, timeLimit |-> meter.TimeLimitSA9A6P]
    ELSE [rate |-> meter.RateSU9A6P, timeLimit |-> meter.TimeLimitSU9A6P]

EveningCell(d) ==
    IF d % 7 \in 0..4 THEN [rate |-> meter.RateMF6P10, timeLimit |-> meter.TimeLimitMF6P10]
    ELSE IF d % 7 = 5 THEN [rate |-> meter.RateSA6P10, timeLimit |-> meter.TimeLimitSA6P10]
    ELSE [rate |-> meter.RateSU6P10, timeLimit |-> meter.TimeLimitSU6P10]

\* What the part of the stay inside 09:00-22:00 of day d costs at that day's
\* rates, in cent-seconds (cent-minutes x 60).
DueOn(d) ==
    SecondsInside(d, 9, 18) * DayCell(d).rate
    + SecondsInside(d, 18, 22) * EveningCell(d).rate

Called == pc # "call"

ArrivalInsideHours == ArrivalClock >= 9 * 3600 /\ ArrivalClock < 22 * 3600

\* No cell of the arrival day has a limit shorter than the time the stay
\* spends in its period.
NoLimitShorterThanStay ==
    /\ DayCell(ArrivalDay).timeLimit = 0
       \/ DayCell(ArrivalDay).timeLimit * 3600 >= SecondsInside(ArrivalDay, 9, 18)
    /\ EveningCell(ArrivalDay).timeLimit = 0
       \/ EveningCell(ArrivalDay).timeLimit * 3600 >= SecondsInside(ArrivalDay, 18, 22)

Unlimited ==
    /\ DayCell(0).timeLimit = 0 /\ EveningCell(0).timeLimit = 0
    /\ DayCell(5).timeLimit = 0 /\ EveningCell(5).timeLimit = 0
    /\ DayCell(6).timeLimit = 0 /\ EveningCell(6).timeLimit = 0

\* C6 (as claimed): a stay that starts inside 09:00-22:00 and ends by 22:00
\* the same day, with no limit shorter than the time spent in its period,
\* costs its day minutes at the day rate plus its evening minutes at the
\* evening rate of the arrival day's bucket.
C6_SameDayStayBilledPerPeriod ==
    ( /\ Called
      /\ ArrivalInsideHours
      /\ StayEnd <= ArrivalDay * 24 * 3600 + 22 * 3600
      /\ NoLimitShorterThanStay )
    => /\ result.returns
       /\ result.cost * 60 = DueOn(ArrivalDay)

\* C7 (as claimed): a stay that starts in a free period and runs into a
\* paid period is billed for every minute of it inside 09:00-22:00 (here: on
\* a meter without limits, from a whole-minute arrival).
C7_FreeThenPaidIsBilled ==
    ( /\ Called
      /\ Unlimited
      /\ ArrivalClock % 60 = 0
      /\ ~ArrivalInsideHours
      /\ DueOn(ArrivalDay) + DueOn(ArrivalDay + 1) > 0 )
    => /\ result.returns
       /\ result.cost * 60 = DueOn(ArrivalDay) + DueOn(ArrivalDay + 1)

\* C8 (as claimed): when the stay spans midnight, its minutes inside
\* 09:00-22:00 of the following day are billed at the following day's rates,
\* on top of what the arrival day costs (here: on a meter without limits,
\* from a whole-minute arrival inside 09:00-22:00).
C8_FollowingDayBilledAtItsRates ==
    ( /\ Called
      /\ Unlimited
      /\ ArrivalClock % 60 = 0
      /\ ArrivalInsideHours
      /\ StayEnd > (ArrivalDay + 1) * 24 * 3600 + 9 * 3600 )
    => /\ result.returns
       /\ result.cost * 60 - DueOn(ArrivalDay) = DueOn(ArrivalDay + 1)

\* The next 09:00 after an arrival outside 09:00-22:00.
NextNineAM ==
    IF ArrivalClock < 9 * 3600
    THEN ArrivalDay * 24 * 3600 + 9 * 3600
    ELSE (ArrivalDay + 1) * 24 * 3600 + 9 * 3600

\* C9: if the arrival is outside 09:00-22:00 Vancouver time and the stay
\* ends before the next 09:00, the call returns cost 0 and no error.
C9_FreePeriodStayCostsNothing ==
    ( /\ Called
      /\ ~ArrivalInsideHours
      /\ StayEnd < NextNineAM )
    => result = Returned(0)

\* Witness of C9: a two-hour stay from Friday 22:30, given as a UTC value, at
\* a meter with the six nonzero rates, has returned.
C9_Witness ==
    /\ pc = "returned"
    /\ ArrivalDay = 4
    /\ ArrivalClock = Clock(22, 30, 0)
    /\ arrivalTime.off # 0
    /\ durationMinutes = 120
    /\ meter.RateSA9A6P > 0
    /\ result.cost = 0

\* C10: a duration of 0 minutes costs exactly 0 and returns no error, for
\* every meter and arrival instant.
C10_ZeroDurationCostsNothing ==
    (Called /\ durationMinutes = 0) => result = Returned(0)

\* Witness of C10: a zero-minute stay that starts while the meter is active
\* and charging has returned.
C10_Witness ==
    /\ pc = "returned"
    /\ durationMinutes = 0
    /\ IsMeterActive(InVancouver(arrivalTime))
    /\ GetParkingRateAtTime(meter, InVancouver(arrivalTime)).rate > 0
    /\ result.cost = 0

(***************************************************************************)
(* Properties of the rate lookup (checked under SpecRate).                 *)
(***************************************************************************)
LookedUp == pc = "looked up"

\* C11: GetParkingRateAtTime returns the (rate, limit) of the cell selected
\* by the instant's weekday bucket (Mon-Fri, Saturday, Sunday) and period
\* (hour in [9,18) day, hour in [18,22) evening), so a Saturday instant never
\* gets the Mon-Fri cell; it returns (0, 0) when the hour is outside [9,22),
\* and IsMeterActive is true exactly when 9 <= hour < 22.  Weekday and hour
\* are those of the instant as the time value carries them.
C11_RateOfBucketAndPeriod ==
    LookedUp =>
        LET wall == arrivalTime.abs + arrivalTime.off
            wd   == (wall \div 86400) % 7
            h    == (wall % 86400) \div 3600
            got  == <<result.rate, result.timeLimit>>
            day  == 9 <= h /\ h < 18
            eve  == 18 <= h /\ h < 22
        IN /\ result.active = (9 <= h /\ h < 22)
           /\ (h < 9 \/ h >= 22) => got = <<0, 0>>
           /\ (wd \in 0..4 /\ day) => got = <<meter.RateMF9A6P, meter.TimeLimitMF9A6P>>
           /\ (wd \in 0..4 /\ eve) => got = <<meter.RateMF6P10, meter.TimeLimitMF6P10>>
           /\ (wd = 5 /\ day) => got = <<meter.RateSA9A6P, meter.TimeLimitSA9A6P>>
           /\ (wd = 5 /\ eve) => got = <<meter.RateSA6P10, meter.TimeLimitSA6P10>>
           /\ (wd = 6 /\ day) => got = <<meter.RateSU9A6P, meter.TimeLimitSU9A6P>>
           /\ (wd = 6 /\ eve) => got = <<meter.RateSU6P10, meter.TimeLimitSU6P10>>

\* Witness of C11: Saturday 11:00 at a meter whose Saturday day cell differs
\* from its Mon-Fri day cell in rate and in limit; the Saturday cell came back.
C11_Witness ==
    /\ LookedUp
    /\ arrivalTime = [abs |-> 5 * 24 * 3600 + Clock(11, 0, 0), off |-> 0]
    /\ meter.RateSA9A6P # meter.RateMF9A6P
    /\ meter.TimeLimitSA9A6P # meter.TimeLimitMF9A6P
    /\ result.rate = meter.RateSA9A6P
    /\ result.timeLimit = meter.TimeLimitSA9A6P
    /\ result.active

(***************************************************************************)
(* Properties of meter selection (checked under SpecSelector).             *)
(***************************************************************************)
Chose == pc = "chosen"

\* The meters of the list that the max-stay filter of GetOptimalParkingMeter
\* lets through.
Survivors ==
    { i \in 1..Len(meters) :
        LET l == GetParkingRateAtTime(meters[i], arrivalTime).timeLimit
        IN l = 0 \/ durationMinutes <= l * 60 }

CostOf(i) == CalculateParkingCost(meters[i], arrivalTime, durationMinutes).cost

\* C12: when some meter survives the max-stay filter, a call of
\* GetOptimalParkingMeter that returns hands back a survivor whose
\* CalculateParkingCost is minimal among the survivors, together with that
\* cost, and of several survivors with the minimal cost the one that comes
\* first in the input list.
C12_FirstCheapestSurvivor ==
    (Chose /\ Survivors # {}) =>
        \E i \in Survivors :
            /\ result.found
            /\ result.err = "nil"
            /\ result.meter = meters[i]
            /\ result.cost = CostOf(i)
            /\ \A j \in Survivors :
                  /\ CostOf(i) <= CostOf(j)
                  /\ CostOf(j) = CostOf(i) => i <= j

\* Witness of C12: three survivors, the first one dearer, the second and the
\* third equally cheap at a nonzero cost; the second one came back.
C12_Witness ==
    /\ Chose
    /\ Survivors = {1, 2, 3}
    /\ CostOf(1) > CostOf(2)
    /\ CostOf(3) = CostOf(2)
    /\ CostOf(2) > 0
    /\ result.meter.MeterID = 2

\* The max-stay limit of m in the bucket and period in which the arrival
\* instant lies on the Vancouver calendar, the one on which the stay is
\* billed.
ArrivalLimit(m) == GetParkingRateAtTime(m, InVancouver(arrivalTime)).timeLimit

\* C13 (as claimed): GetOptimalParkingMeter never returns a meter whose
\* max-stay limit at the bucket and period active at the arrival instant is
\* nonzero and shorter than the requested duration.
C13_NoMeterWithShorterLimit ==
    (Chose /\ result.found) =>
        ~( /\ ArrivalLimit(result.meter) > 0
           /\ ArrivalLimit(result.meter) * 60 < durationMinutes )

\* C14: when the meter list is empty, or the max-stay filter removes every
\* meter, a call of GetOptimalParkingMeter that returns hands back no meter,
\* cost 0 and no error.
C14_NoFeasibleParking ==
    (Chose /\ Survivors = {}) =>
        /\ ~result.found
        /\ result.meter = NilMeter
        /\ result.cost = 0
        /\ result.err = "nil"

\* Witness of C14: two meters that both charge for the stay and are both
\* removed by the filter; no meter came back.
C14_Witness ==
    /\ Chose
    /\ Len(meters) = 2
    /\ Survivors = {}
    /\ CostOf(1) > 0
    /\ CostOf(2) > 0
    /\ ~result.found
    /\ result.cost = 0

(***************************************************************************)
(* Properties of the trip pipeline (checked under SpecTrip).               *)
(***************************************************************************)
RECURSIVE Factorial(_)
Factorial(n) == IF n <= 1 THEN 1 ELSE n * Factorial(n - 1)

\* generateRoutes has returned and its routes are not selected from yet.
Evaluated == pc = "select"

\* PlanTrip has returned (plans, err).
PlanTripReturned == pc \in {"selected", "failed", "responded"}

StopCount == Len(request.Stops)

\* C15: for a request of N >= 2 distinct stops, generateRoutes evaluates
\* exactly (N-1)! orderings: each starts with the request's first stop and
\* goes on with every remaining stop exactly once, no two orderings are
\* equal, and every permutation of the remaining stops occurs.
C15_EveryOrderingOnce ==
    Evaluated =>
        LET N    == StopCount
            os   == calls.orderings
            rest == { request.Stops[k].Address : k \in 2..N }
        IN /\ Len(os) = Factorial(N - 1)
           /\ \A k \in 1..Len(os) :
                 /\ Len(os[k]) = N
                 /\ os[k][1] = request.Stops[1].Address
                 /\ { os[k][x] : x \in 2..N } = rest
           /\ \A k, l \in 1..Len(os) : k # l => os[k] # os[l]
           /\ \A q \in [1..(N - 1) -> rest] :
                 (\A x, y \in 1..(N - 1) : x # y => q[x] # q[y])
                     => \E k \in 1..Len(os) : Tail(os[k]) = q

\* Witness of C15: the six orderings of a four-stop request were evaluated,
\* the last of them the reverse of the input order.
C15_Witness ==
    /\ Evaluated
    /\ StopCount = 4
    /\ Len(calls.orderings) = 6
    /\ calls.orderings[6] = <<1, 4, 3, 2>>
    /\ calls.GetTravelTime >= 6

\* The stops of the ordering os, which lists addresses.
RouteOf(os) == [x \in 1..Len(os) |-> stops[os[x]]]

\* Every segment of route from position i on succeeds when the clock stands
\* at clock: the travel time is answered, the destination has meters, and
\* one of them is feasible.
RECURSIVE SucceedsFrom(_, _, _)
SegmentSucceeds(route, i, drive, arrival, list, best) ==
    /\ drive # Failure
    /\ Len(list) > 0
    /\ best.found
    /\ SucceedsFrom(route, i + 1,
           AddMinutes(arrival,
                      CalculateWalkingTime(best.meter.Lat, route[i].Lat)
                      + route[i].Duration))

ParksAt(route, i, drive, arrival, list) ==
    SegmentSucceeds(route, i, drive, arrival, list,
                    GetOptimalParkingMeter(list, arrival, route[i].Duration))

DrivesTo(route, i, clock, drive) ==
    ParksAt(route, i, drive, AddMinutes(clock, drive),
            stopParkingOptions[route[i].ID])

SucceedsFrom(route, i, clock) ==
    IF i > Len(route) THEN TRUE
    ELSE DrivesTo(route, i, clock,
                  GetTravelTime(world, route[i - 1].Lat, route[i].Lat))

\* The orderings, by their place in the enumeration, whose every segment
\* succeeds.
Succeeding ==
    { k \in 1..Len(calls.orderings) :
        SucceedsFrom(RouteOf(calls.orderings[k]), 2, request.StartTime) }

\* The ordering a candidate's segment chain runs through.
OrderingOf(r) ==
    << r.Segments[1].FromStop.Address >>
    \o [x \in 1..Len(r.Segments) |-> r.Segments[x].ToStop.Address]

\* The candidate list holds the orderings of S and no other, in enumeration
\* order, each with a segment for every stop after the first.
CandidatesAreExactly(S) ==
    /\ Len(routes) = Cardinality(S)
    /\ \A r \in 1..Len(routes) :
          /\ Len(routes[r].Segments) = StopCount - 1
          /\ \E k \in S :
                /\ OrderingOf(routes[r]) = calls.orderings[k]
                /\ Cardinality({ j \in S : j <= k }) = r

\* C16: a travel-time lookup error, an empty meter list for a destination
\* stop, or no feasible meter at a stop discards only the ordering being
\* evaluated: every ordering is still evaluated, and when generateRoutes
\* returns, the candidate list holds exactly the orderings whose every
\* segment succeeded, in enumeration order, each with N-1 segments.
C16_FailureDiscardsOneOrdering ==
    Evaluated =>
        /\ Len(calls.orderings) = Factorial(StopCount - 1)
        /\ CandidatesAreExactly(Succeeding)

\* Witness of C16: with every travel time answered, the first ordering was
\* discarded because no meter of its first destination was feasible, the
\* second ordering was evaluated all the same and is the one candidate.
C16_Witness ==
    /\ Evaluated
    /\ StopCount = 3
    /\ world.noRoute = {}
    /\ Succeeding = {2}
    /\ calls.GetOptimalParkingMeter = 3
    /\ Len(routes) = 1
    /\ OrderingOf(routes[1]) = <<1, 3, 2>>

\* C17: when no ordering yields a candidate, selectOptimalPlans returns an
\* empty result, PlanTrip returns it without an error, and the handler
\* answers 404 with error code no_routes_found.
C17_NoRouteFound ==
    /\ (pc = "selected" /\ routes = << >>) => (plans = << >> /\ err = "nil")
    /\ (pc = "responded" /\ err = "nil" /\ routes = << >>) =>
          /\ plans = << >>
          /\ response = [status |-> 404, error |-> "no_routes_found", plans |-> << >>]

\* Witness of C17: both orderings of a three-stop request were evaluated,
\* neither gave a candidate, and the handler answered 404.
C17_Witness ==
    /\ pc = "responded"
    /\ StopCount = 3
    /\ Len(calls.orderings) = 2
    /\ calls.GetTravelTime >= 2
    /\ routes = << >>
    /\ err = "nil"
    /\ response.status = 404

\* Some stop without coordinates cannot be geocoded, or the meters of some
\* stop cannot be fetched.
UpfrontFailure ==
    \/ \E k \in 1..StopCount :
          request.Stops[k].Lat = 0 /\ world.geocode[request.Stops[k].Address] = Failure
    \/ \E lat \in DOMAIN world.metersNear : ~world.metersNear[lat].ok

\* C18: a collaborator failure during upfront resolution (geocoding any
\* stop, or fetching the meter list of any stop including the first) is
\* fatal: PlanTrip returns an error and no plans, and no ordering is
\* evaluated, no travel time looked up and no meter selected.
C18_UpfrontFailureIsFatal ==
    /\ (UpfrontFailure /\ pc \notin {"receive", "rejected", "plan", "find parking"})
          => err # "nil"
    /\ err # "nil" =>
          /\ PlanTripReturned
          /\ plans = << >>
          /\ routes = << >>
          /\ calls.orderings = << >>
          /\ calls.GetTravelTime = 0
          /\ calls.GetOptimalParkingMeter = 0

\* Witness of C18: the meters of the first of three stops could not be
\* fetched; PlanTrip has returned the error after that one fetch.
C18_Witness ==
    /\ pc = "failed"
    /\ StopCount = 3
    /\ ~world.metersNear[PlaceLat(1)].ok
    /\ calls.GetParkingMetersNear = 1
    /\ err = "failed to get parking meters"

C20_SingleCandidateThreeTimes ==
    /\ (pc = "selected" /\ Len(routes) = 1) =>
          /\ Len(plans) = 3
          /\ \A k \in 1..3 : PlanOfCandidate(k, 1)
    /\ (pc = "selected" /\ StopCount = 2) => Len(routes) <= 1

\* Witness of C20: a two-stop request gave one candidate with a cost, and
\* three plans were selected.
C20_Witness ==
    /\ pc = "selected"
    /\ StopCount = 2
    /\ Len(routes) = 1
    /\ routes[1].TotalCost > 0
    /\ Len(plans) = 3

(***************************************************************************)
(* Properties of the HTTP handler and of the candidates it returns         *)
(* (checked under SpecTrip).                                               *)
(***************************************************************************)
WeightSum == body.Preferences.CostWeight + body.Preferences.TimeWeight

SumInRange == WeightSum >= 90 /\ WeightSum <= 110

\* The handler has dealt with the body.
Received == pc # "receive"

\* The body passes the binding of the request: at least two stops, and each
\* supplied weight within [0, 1].
PassesBinding ==
    /\ Len(body.Stops) >= 2
    /\ body.Preferences.supplied =>
          /\ body.Preferences.CostWeight \in 0..100
          /\ body.Preferences.TimeWeight \in 0..100

\* The routing service runs with the default weights 0.5 and 0.5.
RunsWithDefaults ==
    /\ request.Preferences = [CostWeight |-> 50, TimeWeight |-> 50]
    /\ \A r \in 1..Len(routes) :
          routes[r].HybridScore = 50 * routes[r].TotalCost + 100 * 50 * routes[r].TotalTime

\* C21 as stated: the routing service is called only when supplied
\* preferences sum to within [0.9, 1.1]; otherwise the handler answers 400
\* invalid_preferences and never calls the routing service; without
\* preferences the routing service runs with the weights 0.5 and 0.5.
C21_BadSumIsInvalidPreferences ==
    /\ (calls.PlanTrip > 0 /\ body.Preferences.supplied) => SumInRange
    /\ (Received /\ body.Preferences.supplied /\ ~SumInRange) =>
          /\ response = BadRequest("invalid_preferences")
          /\ calls = NoCalls
    /\ (calls.PlanTrip > 0 /\ ~body.Preferences.supplied) => RunsWithDefaults

\* C21 (amended): the routing service is called only when supplied
\* preferences sum to within [0.9, 1.1]; otherwise the handler never calls
\* it and answers 400, with error code invalid_preferences when the body
\* passes the binding and invalid_request when it does not (fewer than two
\* stops, a weight outside [0, 1]); without preferences the routing service
\* runs with the weights 0.5 and 0.5.
C21_BadSumIsRejected ==
    /\ (calls.PlanTrip > 0 /\ body.Preferences.supplied) => SumInRange
    /\ (Received /\ body.Preferences.supplied /\ ~SumInRange) =>
          /\ pc = "rejected"
          /\ response = BadRequest(IF PassesBinding THEN "invalid_preferences"
                                   ELSE "invalid_request")
          /\ calls = NoCalls
          /\ request = NoRequest
    /\ (calls.PlanTrip > 0 /\ ~body.Preferences.supplied) => RunsWithDefaults

\* Witness of C21: the integration test's body, two stops with the weights
\* 0.8 and 0.8, was answered 400 invalid_preferences without a call.
C21_Witness ==
    /\ pc = "rejected"
    /\ Len(body.Stops) = 2
    /\ body.StartTime.rfc3339
    /\ body.Preferences = Supplied(80, 80)
    /\ response.status = 400
    /\ response.error = "invalid_preferences"
    /\ calls.PlanTrip = 0

\* PlanTrip has returned plans.
PlansReturned == pc = "selected" /\ Len(plans) > 0

\* The stop carries the instants of a visit that begins at the instant
\* arrival.
CarriesVisit(stop, arrival) ==
    /\ stop.ArrivalTime # NoTime
    /\ stop.ArrivalTime = arrival
    /\ stop.DepartureTime = AddMinutes(arrival, stop.Duration)

\* C22: in every returned plan the stops of each segment carry arrival and
\* departure instants of the plan's schedule, not unset zero instants: the
\* first stop is there from the start instant on, each destination is
\* reached after the drive and the walk, and every departure is the arrival
\* plus the visit duration.
C22_StopsCarrySchedule ==
    PlansReturned =>
        \A k \in 1..Len(plans) :
            /\ CarriesVisit(plans[k].Route[1].FromStop, request.StartTime)
            /\ CarriesVisit(plans[k].Route[1].ToStop,
                            AddMinutes(request.StartTime,
                                       plans[k].Route[1].TravelTime
                                       + plans[k].Route[1].WalkingTime))
            /\ \A x \in 1..Len(plans[k].Route) :
                  /\ plans[k].Route[x].ToStop.ArrivalTime # NoTime
                  /\ plans[k].Route[x].ToStop.DepartureTime
                        = AddMinutes(plans[k].Route[x].ToStop.ArrivalTime,
                                     plans[k].Route[x].ToStop.Duration)

\* The ordering, by its place in the enumeration, that gave candidate r.
OrderingIndex(r) ==
    CHOOSE k \in 1..Len(calls.orderings) : calls.orderings[k] = OrderingOf(routes[r])

\* The calls L (travel-time lookups) and S (meter selections) made for a
\* candidate of the given segments follow one clock: it starts at start,
\* each lookup is made at the clock, each selection at the clock plus the
\* drive with the visit duration of the destination, whose parking is priced
\* from that instant, and the clock goes on by the walk and the visit.
ClockIsFollowed(segments, L, S, start) ==
    /\ Len(L) = Len(segments)
    /\ Len(S) = Len(segments)
    /\ L[1].departureTime = start
    /\ \A i \in 1..Len(segments) :
          /\ L[i].from = segments[i].FromStop.Lat
          /\ L[i].to = segments[i].ToStop.Lat
          /\ S[i].stop = segments[i].ToStop.Address
          /\ S[i].arrivalTime = AddMinutes(L[i].departureTime, segments[i].TravelTime)
          /\ S[i].durationMinutes = segments[i].ToStop.Duration
          /\ segments[i].ParkingCost
                = CalculateParkingCost(segments[i].ParkingMeter, S[i].arrivalTime,
                                       S[i].durationMinutes).cost
          /\ i < Len(segments) =>
                /\ L[i + 1].departureTime
                      = AddMinutes(S[i].arrivalTime,
                                   segments[i].WalkingTime + segments[i].ToStop.Duration)
                /\ S[i + 1].arrivalTime.abs >= L[i + 1].departureTime.abs

RECURSIVE ParkingCostFrom(_, _)
ParkingCostFrom(segments, i) ==
    IF i > Len(segments) THEN 0
    ELSE segments[i].ParkingCost + ParkingCostFrom(segments, i + 1)

\* The sum of the drive, walk and destination visit minutes of the segments
\* from position i on.
RECURSIVE MinutesFrom(_, _)
MinutesFrom(segments, i) ==
    IF i > Len(segments) THEN 0
    ELSE segments[i].TravelTime + segments[i].WalkingTime + segments[i].ToStop.Duration
         + MinutesFrom(segments, i + 1)

\* C24: for every candidate, the total cost is the sum of its segments'
\* parking costs, the total time is the sum over its segments of drive +
\* walk + destination visit minutes (the first stop's visit is not in it),
\* and the hybrid score is costWeight x totalCost + timeWeight x totalTime
\* / 60 (on the model's scale: percent x cent-minutes + 100 x percent x
\* minutes).
C24_TotalsAreSums ==
    Evaluated =>
        \A r \in 1..Len(routes) :
            /\ routes[r].TotalCost = ParkingCostFrom(routes[r].Segments, 1)
            /\ routes[r].TotalTime = MinutesFrom(routes[r].Segments, 1)
            /\ routes[r].HybridScore
                  = request.Preferences.CostWeight * routes[r].TotalCost
                    + 100 * request.Preferences.TimeWeight * routes[r].TotalTime

\* Witness of C24: a candidate of two segments, 10 + 8 + 90 and 10 + 8 + 60
\* minutes with parking of $3.00 and about $1.03, has 186 minutes and the
\* two costs as its totals.
C24_Witness ==
    /\ Evaluated
    /\ Len(routes) >= 1
    /\ Len(routes[1].Segments) = 2
    /\ routes[1].Segments[1].ParkingCost = 18000
    /\ routes[1].Segments[2].ParkingCost = 6200
    /\ routes[1].TotalCost = 24200
    /\ routes[1].TotalTime = 186
    /\ request.Preferences = [CostWeight |-> 30, TimeWeight |-> 70]
    /\ routes[1].HybridScore = 30 * 24200 + 100 * 70 * 186

(***************************************************************************)
(* Further properties of the pricing service (checked under SpecPricing    *)
(* and SpecSelector).                                                      *)
(***************************************************************************)

\* The meter m with the rates it has and no max-stay limit in any cell.
WithoutLimits(m) ==
    [m EXCEPT !.TimeLimitMF9A6P = 0, !.TimeLimitMF6P10 = 0,
              !.TimeLimitSA9A6P = 0, !.TimeLimitSA6P10 = 0,
              !.TimeLimitSU9A6P = 0, !.TimeLimitSU6P10 = 0]

\* What the stay costs on the meter of the same rates without limits.
UnlimitedCost == CalculateParkingCost(WithoutLimits(meter), arrivalTime, durationMinutes)

\* C25: the max-stay limits do not reduce the minutes billed: for the same
\* arrival and duration a meter costs what the meter of the same rates
\* without limits costs, also when a period of the stay has a limit shorter
\* than the minutes spent in it.
C25_LimitsDoNotChangeTheBill ==
    (Called /\ result.returns /\ UnlimitedCost.returns) =>
        result.cost = UnlimitedCost.cost

(***************************************************************************)
(* Further properties of plan selection (checked under SpecPlans).         *)
(***************************************************************************)

\* C26: the cheapest plan's metadata reports the cost delta fastest total
\* cost - cheapest total cost (as dollars and cents), the fastest plan's
\* metadata the time delta cheapest total time - fastest total time; for
\* every non-empty candidate list both deltas are >= 0; and the hybrid
\* plan's metadata carries the hybrid score of the hybrid candidate, the
\* least of the list.
C26_MetadataDeltas ==
    Selected =>
        /\ plans[1].Metadata.savings
              = VersusFastest(plans[2].TotalCost - plans[1].TotalCost)
        /\ plans[1].Metadata.savings.cents >= 0
        /\ plans[2].TotalCost - plans[1].TotalCost >= 0
        /\ plans[2].Metadata.time_saved
              = VersusCheapest(plans[1].TotalTime - plans[2].TotalTime)
        /\ plans[2].Metadata.time_saved.minutes >= 0
        /\ \E i \in 1..Len(routes) :
              /\ PlanOfCandidate(3, i)
              /\ plans[3].Metadata.hybrid_score = routes[i].HybridScore
        /\ \A i \in 1..Len(routes) :
              plans[3].Metadata.hybrid_score <= routes[i].HybridScore

\* Witness of C26: the cheapest plan saves $1.00 against the fastest, which
\* saves 60 minutes against the cheapest.
C26_Witness ==
    /\ Selected
    /\ plans[1].Metadata.savings = [cents |-> 100, versus |-> "fastest"]
    /\ plans[2].Metadata.time_saved = [minutes |-> 60, versus |-> "cheapest"]
    /\ plans[3].Metadata.hybrid_score > 0

(***************************************************************************)
(* Termination and the calendar of the pricing service (checked under      *)
(* SpecPricing and SpecSelector).                                          *)
(***************************************************************************)

\* C27: CalculateParkingCost terminates and returns a cost for every meter,
\* every duration >= 0 and every arrival instant at one-second granularity,
\* also for an arrival less than a full minute before 18:00 or 22:00.
C27_CostCallReturns ==
    Called => (pc = "returned" /\ result.returns /\ result.err = "nil")

\* The meters of the list whose limit, in the bucket and period in which
\* CalculateParkingCost bills the arrival minute, allows the stay.
BillingSurvivors ==
    { i \in 1..Len(meters) :
        ArrivalLimit(meters[i]) = 0 \/ durationMinutes <= ArrivalLimit(meters[i]) * 60 }

\* C28: the max-stay filter reads the calendar the cost is billed on: also
\* for an arrival value with another UTC offset than Vancouver's, the limit
\* GetOptimalParkingMeter applies to a meter is the limit of the bucket and
\* period in which the arrival minute is billed, so that the call returns
\* the first cheapest of the meters which that limit allows, and no meter
\* when it allows none.
C28_FilterReadsBillingCalendar ==
    Chose =>
        /\ IsMeterActive(InVancouver(arrivalTime)) =>
              \A i \in 1..Len(meters) :
                  GetParkingRateAtTime(meters[i], arrivalTime).timeLimit
                      = ArrivalLimit(meters[i])
        /\ result.found <=> BillingSurvivors # {}
        /\ result.found =>
              \E i \in BillingSurvivors :
                  /\ result.meter = meters[i]
                  /\ \A j \in BillingSurvivors :
                        /\ CostOf(i) <= CostOf(j)
                        /\ CostOf(j) = CostOf(i) => i <= j

(***************************************************************************)
(* Properties of the returned routes (checked under SpecTrip).             *)
(***************************************************************************)

\* The meter list the parking data holds for the coordinates of stop.
FetchedFor(stop) == world.metersNear[stop.Lat].meters

\* C29: in every returned plan the meter chosen for a segment is one of the
\* meters fetched for the coordinates of that segment's destination stop,
\* also when two stops of the request carry the same ID.
C29_MeterOfTheDestination ==
    PlansReturned =>
        \A k \in 1..Len(plans) :
            \A x \in 1..Len(plans[k].Route) :
                \E j \in 1..Len(FetchedFor(plans[k].Route[x].ToStop)) :
                    FetchedFor(plans[k].Route[x].ToStop)[j] = plans[k].Route[x].ParkingMeter

\* The segments of the route visit the stop of the address exactly once as
\* a destination.
ReachedOnce(route, address) ==
    Cardinality({ x \in 1..Len(route) : route[x].ToStop.Address = address }) = 1

\* The route is a chain through the N stops of the request that starts at
\* its first stop.
IsChain(route) ==
    /\ Len(route) = StopCount - 1
    /\ route[1].FromStop.Address = request.Stops[1].Address
    /\ route[1].FromStop = stops[1]
    /\ \A x \in 2..Len(route) : route[x].FromStop = route[x - 1].ToStop
    /\ \A j \in 2..StopCount : ReachedOnce(route, request.Stops[j].Address)
    /\ \A x \in 1..Len(route) :
          /\ route[x].ToStop.Address # request.Stops[1].Address
          /\ route[x].ToStop \in { stops[j] : j \in 2..StopCount }

\* C30: every returned plan of an N-stop request has a route of exactly N-1
\* segments that form a chain: the first segment leaves the request's first
\* stop, each later segment leaves the stop the one before it reached, every
\* stop but the first is reached exactly once, and the first stop is no
\* segment's destination, so that no meter and no parking cost is assigned
\* to it.
C30_RouteIsAChain ==
    PlansReturned => \A k \in 1..Len(plans) : IsChain(plans[k].Route)

\* Witness of C30: a four-stop request, and the cheapest plan's three
\* segments run through the stops in another order than the input order.
C30_Witness ==
    /\ PlansReturned
    /\ StopCount = 4
    /\ Len(plans[1].Route) = 3
    /\ plans[1].Route[1].FromStop.Address = 1
    /\ plans[1].Route[1].ToStop.Address = 3
    /\ plans[1].Route[3].ToStop.Address # 4

====
